---- MODULE Spec2Model ----
(***************************************************************************)
(* mnist_mlp_function.py: command line driver with three procedures        *)
(* (train, inference, find_lr) around a Keras MLP.                          *)
(*                                                                         *)
(* Numeric tensors are abstracted:                                         *)
(*   - the learnable weights are a record counting the optimizer updates   *)
(*     applied since construction, plus a flag telling that the SWA        *)
(*     average was assigned over them;                                     *)
(*   - the batch-norm moving statistics are a record counting the          *)
(*     moving-average updates applied since construction;                  *)
(*   - the output of a forward pass on a batch is the probability given    *)
(*     to the true class, an integer in 0..PMax (in units of 1/PMax).      *)
(* One behaviour is one invocation of the script; after a train            *)
(* invocation has ended, the script may be invoked again for inference on  *)
(* the same file system.                                                   *)
(***************************************************************************)
EXTENDS Integers, Sequences, FiniteSets, TLC

\* ---------------------------------------------------------------- constants
BATCH_SIZE == 32

\* bounds of the model
MaxEpochs == 2
MaxTrainBatches == 2
MaxValidBatches == 2
MaxSamples == 2
PMax == 1
MaxLrSteps == 2

Optimizers == {"Adam", "SGD"}
Procedures == {"train", "inference", "find_lr"}
ImagePaths == {"None", "missing", "present"}
ProbLevels == 0..PMax

VARIABLES
    pc,             \* position of the running invocation
    error,          \* exception that ended the invocation, "" if none
    args,           \* the parsed command line
    fs,             \* file system: models directory, checkpoint, plot files
    data,           \* the dataset: number of training / validation samples
    num_epochs,     \* the epoch count of the training loop (NUM_EPOCHS, 30
                    \* in the source; here any count up to MaxEpochs)
    num_samples,    \* num_samples of valid_step_with_dropout, 0 until the
                    \* dropout loop calls it
    model,          \* the model of train / find_lr: weights and bn statistics
    optimizer,      \* the optimizer object of train / find_lr
    metrics,        \* train_loss, train_accuracy, test_loss, test_accuracy
    epoch, idx,     \* loop counters
    loss,           \* find_lr: the loss the last train_step returned
    outs,           \* the list outs of the last valid_step_with_dropout,
                    \* empty outside the dropout loop
    lr_finder,      \* the LRFinder object of find_lr
    stdout,         \* the last line printed
    inf             \* inference(): its model and its probs

vars == <<pc, error, args, fs, data, num_epochs, num_samples, model, optimizer,
          metrics, epoch, idx, loss, outs, lr_finder, stdout, inf>>

\* ------------------------------------------------------------ the dataset
\* tf.data.Dataset.batch(BATCH_SIZE): number of batches of n samples
NumBatches(n) == (n + BATCH_SIZE - 1) \div BATCH_SIZE

\* size of the i-th batch (1-based) of n samples: the last one may be short
BatchLen(n, i) ==
    IF i * BATCH_SIZE <= n THEN BATCH_SIZE ELSE n - (i - 1) * BATCH_SIZE

\* ------------------------------------------------------------ the model
\* MLP(): freshly initialised weights and batch-norm statistics
MLP(owner) ==
    [weights |-> [init |-> owner, updates |-> 0, swa |-> FALSE],
     bn      |-> [init |-> owner, updates |-> 0]]

NoModel == [weights |-> [init |-> "none", updates |-> 0, swa |-> FALSE],
            bn      |-> [init |-> "none", updates |-> 0]]

\* MLP.call: in training mode the batch-norm layers update their moving
\* statistics; in inference mode the model is left alone
Call(m, training) ==
    IF training
    THEN [m EXCEPT !.bn.updates = @ + 1]
    ELSE m

\* keras.losses.SparseCategoricalCrossentropy on an output: decreasing in
\* the probability of the true class
Criterion(o) == PMax - o

\* number of samples of a batch of len samples whose arg-max is the label
Matches(o, len) == IF 2 * o > PMax THEN len ELSE 0

\* ------------------------------------------------------------ the metrics
\* keras.metrics.Mean / SparseCategoricalAccuracy: running total and count
ZeroMetric == [total |-> 0, count |-> 0]

\* a faulty reset_states, which leaves the metric as it is
ResetStates_Keeps(m) == m

\* metric.reset_states()
ResetStates(m) == ZeroMetric

\* train_loss(loss), test_loss(loss)
MeanUpdate(m, value) == [total |-> m.total + value, count |-> m.count + 1]

\* train_accuracy(y_batch, out), test_accuracy(y_batch, out)
AccuracyUpdate(m, o, len) ==
    [total |-> m.total + Matches(o, len), count |-> m.count + len]

\* metric.result() * 100, as an integer percentage (0 for an empty metric)
Percent(m) == IF m.count = 0 THEN 0 ELSE (100 * m.total) \div m.count

\* ------------------------------------------------------------ the optimizer
\* a learning rate: LEARNING_RATE, or step k of the exponential sweep from
\* start_lr (k = 0) to max_lr (k = num)
LEARNING_RATE == [sweep |-> FALSE, k |-> 0]
SweepRate(k) == [sweep |-> TRUE, k |-> k]

\* lines 96-103: the base optimizer, wrapped by SWA and then by Lookahead
MakeOptimizer(name, swa, lookahead) ==
    [name |-> name, swa |-> swa, lookahead |-> lookahead,
     outer |-> IF lookahead THEN "Lookahead" ELSE IF swa THEN "SWA" ELSE name,
     iterations |-> 0, lr |-> LEARNING_RATE]

NoOptimizer == MakeOptimizer("none", FALSE, FALSE)

\* optimizer.apply_gradients: one update of the learnable weights
ApplyGradients(m) == [m EXCEPT !.weights.updates = @ + 1]

\* assign_swa_weights is a method of the SWA wrapper only
HasAssignSwaWeights(o) == o.outer = "SWA"

\* SWA.assign_swa_weights(model.variables): the averaged weights replace the
\* learnable weights
AssignSwaWeights(m) == [m EXCEPT !.weights.swa = TRUE]

\* ------------------------------------------------------------ file system
NoCkpt == [exists |-> FALSE, model |-> NoModel]
StaleCkpt == [exists |-> TRUE, model |-> MLP("earlier run")]

\* a faulty save_weights, which writes the learnable weights only
SaveWeights_TrainableOnly(m) ==
    [exists |-> TRUE, model |-> [m EXCEPT !.bn.updates = 0]]

\* model.save_weights(MODEL_FILE, save_format='tf')
SaveWeights(m) == [exists |-> TRUE, model |-> m]

\* model.load_weights(MODEL_FILE) into a model
LoadWeights(m, ckpt) == ckpt.model

\* ------------------------------------------------------------ LRFinder
\* LRFinder(start_lr=1e-7, max_lr=1e-1), sweeping in num steps
LRFinder(num) ==
    [num |-> num, lr |-> 0, smoothed |-> 0, best |-> 0, done |-> FALSE,
     history |-> <<>>]

NoFinder == LRFinder(0)

\* the loss has diverged when the smoothed loss exceeds DivergeFactor times
\* the best smoothed loss seen
DivergeFactor == 4

Smooth(f, value) ==
    IF f.history = <<>> THEN value ELSE (f.smoothed + value) \div 2

Min(a, b) == IF a <= b THEN a ELSE b

\* LRFinder.step(loss): records (rate, smoothed loss), moves to the next rate
\* of the exponential schedule, and is done once the max rate is reached or
\* the loss diverges
FinderStep(f, value) ==
    LET sm   == Smooth(f, value)
        best == IF f.history = <<>> THEN sm ELSE Min(f.best, sm)
        div  == f.history # <<>> /\ sm > DivergeFactor * f.best
    IN  [f EXCEPT !.lr = f.lr + 1,
                  !.smoothed = sm,
                  !.best = best,
                  !.history = Append(f.history, <<f.lr, sm>>),
                  !.done = (f.lr + 1 >= f.num) \/ div]

NoInf == [model |-> NoModel, probs |-> <<>>]
NoLine == [kind |-> "none", epoch |-> 0]
ZeroMetrics == [train_loss |-> ZeroMetric, train_accuracy |-> ZeroMetric,
                test_loss |-> ZeroMetric, test_accuracy |-> ZeroMetric]

\* ------------------------------------------------------------ Init
Init ==
    /\ pc = "import"
    /\ error = ""
    /\ args \in [procedure : Procedures, image_path : ImagePaths,
                 optimizer : Optimizers, use_swa : BOOLEAN,
                 use_lookahead : BOOLEAN, mc_dropout : BOOLEAN,
                 verbose : BOOLEAN]
    /\ args.procedure # "train" =>
          /\ ~args.use_swa /\ ~args.use_lookahead /\ ~args.mc_dropout
    /\ args.procedure = "inference" => args.optimizer = "Adam" /\ ~args.verbose
    /\ args.procedure # "inference" => args.image_path = "None"
    /\ fs \in [dir : {"absent", "parent", "ready"}, ckpt : {NoCkpt, StaleCkpt},
               plots : {0}]
    \* a checkpoint of an earlier run is there for inference only: train
    \* and find_lr start without one
    /\ fs.dir # "ready" => fs.ckpt = NoCkpt
    /\ args.procedure # "inference" => fs.ckpt = NoCkpt
    /\ data \in [train : {BATCH_SIZE * k : k \in 1..MaxTrainBatches},
                 valid : {BATCH_SIZE * k - BATCH_SIZE \div 2 :
                              k \in 1..MaxValidBatches}]
    /\ args.procedure = "inference" =>
          data = [train |-> BATCH_SIZE, valid |-> BATCH_SIZE \div 2]
    /\ num_epochs \in 0..MaxEpochs
    /\ args.procedure # "train" => num_epochs = 0
    /\ num_samples = 0
    /\ model = NoModel
    /\ optimizer = NoOptimizer
    /\ metrics = ZeroMetrics
    /\ epoch = 0
    /\ idx = 0
    /\ loss = 0
    /\ outs = <<>>
    /\ lr_finder = NoFinder
    /\ stdout = NoLine
    /\ inf = NoInf

\* ------------------------------------------------------------ module level
Crash(e) ==
    /\ pc' = "crash"
    /\ error' = e

\* lines 20-21: os.mkdir('models/mnist_mlp_function/') when it is missing;
\* os.mkdir does not create the parent directory
Import ==
    /\ pc = "import"
    /\ IF fs.dir = "absent"
       THEN /\ Crash("FileNotFoundError")
            /\ UNCHANGED fs
       ELSE /\ pc' = "main"
            /\ fs' = [fs EXCEPT !.dir = "ready"]
            /\ UNCHANGED error
    /\ UNCHANGED <<args, data, num_epochs, num_samples, model, optimizer,
                   metrics, epoch, idx, loss, outs, lr_finder, stdout, inf>>

\* lines 217-218
MainFindLr ==
    /\ pc = "main"
    /\ args.procedure = "find_lr"
    /\ pc' = "find_lr"
    /\ UNCHANGED <<error, args, fs, data, num_epochs, num_samples, model,
                   optimizer, metrics, epoch, idx, loss, outs, lr_finder, stdout, inf>>

\* lines 219-220
MainTrain ==
    /\ pc = "main"
    /\ args.procedure = "train"
    /\ pc' = "train"
    /\ UNCHANGED <<error, args, fs, data, num_epochs, num_samples, model,
                   optimizer, metrics, epoch, idx, loss, outs, lr_finder, stdout, inf>>

\* faulty preconditions, which do not check the image file
Preconditions_NoImageCheck(ckpt, image_path) ==
    IF ~ckpt.exists THEN "AssertionError: model not found" ELSE ""

\* lines 222-223: the error the two asserts end in, "" when both pass;
\* os.path.exists(None) raises TypeError
Preconditions(ckpt, image_path) ==
    IF ~ckpt.exists THEN "AssertionError: model not found"
    ELSE IF image_path = "None" THEN "TypeError"
    ELSE IF image_path = "missing" THEN "AssertionError: can not find image"
    ELSE ""

\* lines 221-224
MainInference ==
    /\ pc = "main"
    /\ args.procedure = "inference"
    /\ LET e == Preconditions(fs.ckpt, args.image_path)
       IN  IF e = ""
           THEN pc' = "inference" /\ UNCHANGED error
           ELSE Crash(e)
    /\ UNCHANGED <<args, fs, data, num_epochs, num_samples, model, optimizer,
                   metrics, epoch, idx, loss, outs, lr_finder, stdout, inf>>

\* ------------------------------------------------------------ inference
\* model.predict(image): the output of an inference-mode forward pass is a
\* function of the weights, the batch-norm statistics and the image
Predict(m, image) == <<Call(m, FALSE).weights, Call(m, FALSE).bn, image>>

\* lines 193-199
Inference ==
    /\ pc = "inference"
    /\ LET m == LoadWeights(MLP("inference"), fs.ckpt)
       IN  /\ inf' = [model |-> m, probs |-> Predict(m, args.image_path)]
           /\ stdout' = [NoLine EXCEPT !.kind = "it is a"]
    /\ pc' = "exit"
    /\ UNCHANGED <<error, args, fs, data, num_epochs, num_samples, model,
                   optimizer, metrics, epoch, idx, loss, outs, lr_finder>>

\* ------------------------------------------------------------ find_lr
\* train_step of find_lr and of train, lines 63-69 and 110-115: a forward
\* pass in training mode and one optimizer update
TrainStepModel(m) == ApplyGradients(Call(m, TRUE))

\* lines 50-71: the model, the optimizer and the finder are constructed
FindLrSetup ==
    /\ pc = "find_lr"
    /\ model' = MLP("find_lr")
    /\ optimizer' = MakeOptimizer(args.optimizer, FALSE, FALSE)
    /\ \E num \in 1..MaxLrSteps : lr_finder' = LRFinder(num)
    /\ idx' = 0
    /\ pc' = "find_lr_loop"
    /\ UNCHANGED <<error, args, fs, data, num_epochs, num_samples, metrics,
                   epoch, loss, outs, stdout, inf>>

\* a faulty loop test, which ignores the done flag of the finder
FindLrContinue_IgnoresDone(f) == TRUE

\* line 76-77: the sweep loop goes on to the next batch
FindLrContinue(f) == ~f.done

\* lines 72-77: one iteration of the sweep loop
FindLrStep ==
    /\ pc = "find_lr_loop"
    /\ idx < NumBatches(data.train)
    /\ \E o \in ProbLevels :
          LET f == FinderStep(lr_finder, Criterion(o))
          IN  /\ loss' = Criterion(o)
              /\ model' = TrainStepModel(model)
              /\ lr_finder' = f
              /\ optimizer' = [optimizer EXCEPT !.iterations = @ + 1,
                                                !.lr = SweepRate(f.lr)]
              /\ pc' = IF FindLrContinue(f) THEN "find_lr_loop"
                                            ELSE "find_lr_plot"
    /\ idx' = idx + 1
    /\ UNCHANGED <<error, args, fs, data, num_epochs, num_samples, metrics,
                   epoch, outs, stdout, inf>>

\* line 72: the dataset is exhausted
FindLrExhausted ==
    /\ pc = "find_lr_loop"
    /\ idx >= NumBatches(data.train)
    /\ pc' = "find_lr_plot"
    /\ UNCHANGED <<error, args, fs, data, num_epochs, num_samples, model,
                   optimizer, metrics, epoch, idx, loss, outs, lr_finder, stdout, inf>>

\* lines 78-80
FindLrPlot ==
    /\ pc = "find_lr_plot"
    /\ fs' = [fs EXCEPT !.plots = @ + 1]
    /\ stdout' = IF args.verbose
                 THEN [NoLine EXCEPT !.kind = "history"]
                 ELSE stdout
    /\ pc' = "exit"
    /\ UNCHANGED <<error, args, data, num_epochs, num_samples, model,
                   optimizer, metrics, epoch, idx, loss, outs, lr_finder, inf>>

\* ------------------------------------------------------------ train
\* lines 85-107
TrainSetup ==
    /\ pc = "train"
    /\ model' = MLP("train")
    /\ optimizer' = MakeOptimizer(args.optimizer, args.use_swa,
                                  args.use_lookahead)
    /\ metrics' = ZeroMetrics
    /\ epoch' = 0
    /\ pc' = "epoch_top"
    /\ UNCHANGED <<error, args, fs, data, num_epochs, num_samples, idx, loss, outs,
                   lr_finder, stdout, inf>>

\* a faulty range, off by one
EpochLoopContinues_OffByOne(e, n) == e <= n

\* line 137: for epoch in range(n)
EpochLoopContinues(e, n) == e < n

\* a faulty batch loop, which leaves out the last batch
HasNextBatch_SkipsLast(i, n) == i + 1 < NumBatches(n)

\* a for loop over the batches of n samples, at index i, has a next batch
HasNextBatch(i, n) == i < NumBatches(n)

\* lines 137-141
EpochBegin ==
    /\ pc = "epoch_top"
    /\ EpochLoopContinues(epoch, num_epochs)
    /\ metrics' = [metrics EXCEPT
                      !.train_loss = ResetStates(@),
                      !.train_accuracy = ResetStates(@)]
    /\ idx' = 0
    /\ pc' = "train_batches"
    /\ UNCHANGED <<error, args, fs, data, num_epochs, num_samples, model,
                   optimizer, epoch, loss, outs, lr_finder, stdout, inf>>

\* line 137: the range is exhausted
EpochLoopExit ==
    /\ pc = "epoch_top"
    /\ ~EpochLoopContinues(epoch, num_epochs)
    /\ pc' = "after_loop"
    /\ UNCHANGED <<error, args, fs, data, num_epochs, num_samples, model,
                   optimizer, metrics, epoch, idx, loss, outs, lr_finder, stdout, inf>>

\* lines 142-143 and 110-117: train_step on the next training batch
TrainStep ==
    /\ pc = "train_batches"
    /\ HasNextBatch(idx, data.train)
    /\ \E o \in ProbLevels :
          /\ metrics' = [metrics EXCEPT
                  !.train_loss = MeanUpdate(@, Criterion(o)),
                  !.train_accuracy =
                      AccuracyUpdate(@, o, BatchLen(data.train, idx + 1))]
    /\ model' = TrainStepModel(model)
    /\ optimizer' = [optimizer EXCEPT !.iterations = @ + 1]
    /\ idx' = idx + 1
    /\ UNCHANGED <<pc, error, args, fs, data, num_epochs, num_samples, epoch,
                   loss, outs, lr_finder, stdout, inf>>

\* lines 146-147: the training batches are exhausted, validation begins
ValidateBegin ==
    /\ pc = "train_batches"
    /\ ~HasNextBatch(idx, data.train)
    /\ metrics' = [metrics EXCEPT
                      !.test_loss = ResetStates(@),
                      !.test_accuracy = ResetStates(@)]
    /\ idx' = 0
    /\ pc' = "valid_batches"
    /\ UNCHANGED <<error, args, fs, data, num_epochs, num_samples, model,
                   optimizer, epoch, loss, outs, lr_finder, stdout, inf>>

\* a faulty valid_step, whose forward pass runs in training mode
ValidStepModel_Training(m) == Call(m, TRUE)

\* valid_step, lines 119-124: the model after the forward pass
ValidStepModel(m) == Call(m, FALSE)

\* the loops that call valid_step: lines 148-149, 168-169 and 176-177
ValidLoops == {"valid_batches", "swa_valid", "mc_valid"}

ValidStep ==
    /\ pc \in ValidLoops
    /\ HasNextBatch(idx, data.valid)
    /\ \E o \in ProbLevels :
          /\ metrics' = [metrics EXCEPT
                  !.test_loss = MeanUpdate(@, Criterion(o)),
                  !.test_accuracy =
                      AccuracyUpdate(@, o, BatchLen(data.valid, idx + 1))]
    /\ model' = ValidStepModel(model)
    /\ idx' = idx + 1
    /\ UNCHANGED <<pc, error, args, fs, data, num_epochs, num_samples,
                   optimizer, epoch, loss, outs, lr_finder, stdout, inf>>

\* the line a report prints; the metric values it formats are left out
Line(kind, e, ms) == [kind |-> kind, epoch |-> e]

\* lines 151-158: the end of an epoch
EpochLog ==
    /\ pc = "valid_batches"
    /\ ~HasNextBatch(idx, data.valid)
    /\ stdout' = IF args.verbose THEN Line("epoch", epoch + 1, metrics)
                                 ELSE stdout
    /\ epoch' = epoch + 1
    /\ pc' = "epoch_top"
    /\ UNCHANGED <<error, args, fs, data, num_epochs, num_samples, model,
                   optimizer, metrics, idx, loss, outs, lr_finder, inf>>

\* lines 159-161
SwaAssign ==
    /\ pc = "after_loop"
    /\ args.use_swa
    /\ IF HasAssignSwaWeights(optimizer)
       THEN /\ model' = AssignSwaWeights(model)
            /\ idx' = 0
            /\ pc' = "swa_bn"
            /\ UNCHANGED error
       ELSE /\ Crash("AttributeError")
            /\ UNCHANGED <<model, idx>>
    /\ UNCHANGED <<args, fs, data, num_epochs, num_samples, optimizer,
                   metrics, epoch, loss, outs, lr_finder, stdout, inf>>

\* line 159, use_swa false
SwaSkip ==
    /\ pc = "after_loop"
    /\ ~args.use_swa
    /\ pc' = "mc_check"
    /\ UNCHANGED <<error, args, fs, data, num_epochs, num_samples, model,
                   optimizer, metrics, epoch, idx, loss, outs, lr_finder, stdout, inf>>

\* lines 163-164: a forward pass in training mode, no optimizer update
SwaBnModel(m) == Call(m, TRUE)

SwaBnStep ==
    /\ pc = "swa_bn"
    /\ HasNextBatch(idx, data.train)
    /\ model' = SwaBnModel(model)
    /\ idx' = idx + 1
    /\ UNCHANGED <<pc, error, args, fs, data, num_epochs, num_samples,
                   optimizer, metrics, epoch, loss, outs, lr_finder, stdout, inf>>

\* lines 166-167
SwaValidateBegin ==
    /\ pc = "swa_bn"
    /\ ~HasNextBatch(idx, data.train)
    /\ metrics' = [metrics EXCEPT
                      !.test_loss = ResetStates(@),
                      !.test_accuracy = ResetStates(@)]
    /\ idx' = 0
    /\ pc' = "swa_valid"
    /\ UNCHANGED <<error, args, fs, data, num_epochs, num_samples, model,
                   optimizer, epoch, loss, outs, lr_finder, stdout, inf>>

\* line 170
SwaReport ==
    /\ pc = "swa_valid"
    /\ ~HasNextBatch(idx, data.valid)
    /\ stdout' = Line("SWA model", epoch, metrics)
    /\ pc' = "mc_check"
    /\ UNCHANGED <<error, args, fs, data, num_epochs, num_samples, model,
                   optimizer, metrics, epoch, idx, loss, outs, lr_finder, inf>>

\* lines 172-175
McBegin ==
    /\ pc = "mc_check"
    /\ args.mc_dropout
    /\ metrics' = [metrics EXCEPT
                      !.test_loss = ResetStates(@),
                      !.test_accuracy = ResetStates(@)]
    /\ idx' = 0
    /\ pc' = "mc_valid"
    /\ UNCHANGED <<error, args, fs, data, num_epochs, num_samples, model,
                   optimizer, epoch, loss, outs, lr_finder, stdout, inf>>

\* line 172, mc_dropout false
McSkip ==
    /\ pc = "mc_check"
    /\ ~args.mc_dropout
    /\ pc' = "save"
    /\ UNCHANGED <<error, args, fs, data, num_epochs, num_samples, model,
                   optimizer, metrics, epoch, idx, loss, outs, lr_finder, stdout, inf>>

\* lines 178-182
McReportWithout ==
    /\ pc = "mc_valid"
    /\ ~HasNextBatch(idx, data.valid)
    /\ stdout' = Line("test without mc dropout", epoch, metrics)
    /\ metrics' = [metrics EXCEPT
                      !.test_loss = ResetStates(@),
                      !.test_accuracy = ResetStates(@)]
    /\ idx' = 0
    /\ num_samples' \in 1..MaxSamples
    /\ pc' = "mc_dropout"
    /\ UNCHANGED <<error, args, fs, data, num_epochs, model, optimizer, epoch,
                   loss, outs, lr_finder, inf>>

RECURSIVE Sum(_)
Sum(s) == IF s = <<>> THEN 0 ELSE Head(s) + Sum(Tail(s))

\* a faulty reduction, which sums the outputs instead of averaging them
ReduceMean_Sum(os) == Sum(os)

\* line 131: tf.reduce_mean(tf.stack(outs), 0)
ReduceMean(os) == Sum(os) \div Len(os)

\* lines 129-130: one forward pass in training mode per sample
RECURSIVE McForwardModel(_, _)
McForwardModel(m, n) ==
    IF n = 0 THEN m ELSE McForwardModel(Call(m, TRUE), n - 1)

\* lines 132-134: the metric updates of valid_step_with_dropout
McMetrics(ms, os, len) ==
    [ms EXCEPT !.test_loss = MeanUpdate(@, Criterion(ReduceMean(os))),
               !.test_accuracy = AccuracyUpdate(@, ReduceMean(os), len)]

\* lines 183-184 and 126-134: valid_step_with_dropout on the next batch
ValidStepWithDropout ==
    /\ pc = "mc_dropout"
    /\ HasNextBatch(idx, data.valid)
    /\ \E os \in [1..num_samples -> ProbLevels] :
          /\ outs' = os
          /\ metrics' = McMetrics(metrics, os, BatchLen(data.valid, idx + 1))
    /\ model' = McForwardModel(model, num_samples)
    /\ idx' = idx + 1
    /\ UNCHANGED <<pc, error, args, fs, data, num_epochs, num_samples,
                   optimizer, epoch, loss, lr_finder, stdout, inf>>

\* lines 185-186
McReportWith ==
    /\ pc = "mc_dropout"
    /\ ~HasNextBatch(idx, data.valid)
    /\ stdout' = Line("test with mc dropout", epoch, metrics)
    /\ outs' = <<>>
    /\ pc' = "save"
    /\ UNCHANGED <<error, args, fs, data, num_epochs, num_samples, model,
                   optimizer, metrics, epoch, idx, loss, lr_finder, inf>>

\* line 190
Save ==
    /\ pc = "save"
    /\ fs' = [fs EXCEPT !.ckpt = SaveWeights(model)]
    /\ pc' = "exit"
    /\ UNCHANGED <<error, args, data, num_epochs, num_samples, model,
                   optimizer, metrics, epoch, idx, loss, outs, lr_finder, stdout, inf>>

\* ------------------------------------------------------------ next run
\* after a train invocation has ended, the script is invoked for inference;
\* the file system is kept, the memory of the ended process is gone; model
\* keeps the model the ended train run held, for comparison
InvokeInference ==
    /\ pc \in {"exit", "crash"}
    /\ args.procedure = "train"
    /\ \E image \in ImagePaths :
          args' = [procedure |-> "inference", image_path |-> image,
                   optimizer |-> "Adam", use_swa |-> FALSE,
                   use_lookahead |-> FALSE, mc_dropout |-> FALSE,
                   verbose |-> FALSE]
    /\ pc' = "import"
    /\ error' = ""
    /\ data' = [train |-> BATCH_SIZE, valid |-> BATCH_SIZE \div 2]
    /\ num_epochs' = 0
    /\ num_samples' = 0
    /\ optimizer' = NoOptimizer
    /\ metrics' = ZeroMetrics
    /\ epoch' = 0
    /\ idx' = 0
    /\ loss' = 0
    /\ outs' = <<>>
    /\ stdout' = NoLine
    /\ UNCHANGED <<fs, model, lr_finder, inf>>

Next ==
    \/ Import
    \/ MainFindLr
    \/ MainTrain
    \/ MainInference
    \/ Inference
    \/ FindLrSetup
    \/ FindLrStep
    \/ FindLrExhausted
    \/ FindLrPlot
    \/ TrainSetup
    \/ EpochBegin
    \/ EpochLoopExit
    \/ TrainStep
    \/ ValidateBegin
    \/ ValidStep
    \/ EpochLog
    \/ SwaAssign
    \/ SwaSkip
    \/ SwaBnStep
    \/ SwaValidateBegin
    \/ SwaReport
    \/ McBegin
    \/ McSkip
    \/ McReportWithout
    \/ ValidStepWithDropout
    \/ McReportWith
    \/ Save
    \/ InvokeInference

Spec == Init /\ [][Next]_vars

\* find_lr alone: the invocations of the find_lr procedure. The script runs
\* its statements one after the other, so a step that can be taken is taken.
InitFindLr == Init /\ args.procedure = "find_lr"

NextFindLr ==
    \/ Import
    \/ MainFindLr
    \/ FindLrSetup
    \/ FindLrStep
    \/ FindLrExhausted
    \/ FindLrPlot

FindLrSpec == InitFindLr /\ [][NextFindLr]_vars /\ WF_vars(NextFindLr)

\* ================================================================ claims
\* shorthands of the formulas below
TrainBatches == NumBatches(data.train)
ValidBatches == NumBatches(data.valid)
InTrain == args.procedure = "train"
AfterLoop == {"after_loop", "swa_bn", "swa_valid", "mc_check", "mc_valid",
              "mc_dropout", "save", "exit"}

\* ---------------------------------------------------------------- C1
\* C1: in train(), within every epoch all training batches run before any
\* validation batch, all validation batches run before the epoch's log
\* line, no batch of the next epoch starts before the validation of the
\* epoch has finished, and the loop ends after exactly num_epochs epochs.
C1_EpochOrder ==
    InTrain =>
      /\ pc = "train_batches" =>
            /\ epoch < num_epochs
            /\ idx <= TrainBatches
            /\ optimizer.iterations = epoch * TrainBatches + idx
            /\ metrics.train_loss.count = idx
            /\ epoch > 0 => metrics.test_loss.count = ValidBatches
      /\ pc = "valid_batches" =>
            /\ epoch < num_epochs
            /\ idx <= ValidBatches
            /\ optimizer.iterations = (epoch + 1) * TrainBatches
            /\ metrics.train_loss.count = TrainBatches
            /\ metrics.test_loss.count = idx
            /\ stdout.kind = "epoch" => stdout.epoch = epoch
      /\ pc = "epoch_top" =>
            /\ epoch <= num_epochs
            /\ optimizer.iterations = epoch * TrainBatches
            /\ epoch > 0 => metrics.test_loss.count = ValidBatches
            /\ (epoch > 0 /\ args.verbose) =>
                  stdout = [kind |-> "epoch", epoch |-> epoch]
      /\ pc \in AfterLoop =>
            /\ epoch = num_epochs
            /\ optimizer.iterations = num_epochs * TrainBatches
            /\ model.weights.updates = num_epochs * TrainBatches

C1_Witness ==
    /\ InTrain
    /\ pc = "after_loop"
    /\ epoch = 2
    /\ TrainBatches = 2
    /\ ValidBatches = 2
    /\ stdout = [kind |-> "epoch", epoch |-> 2]

C3_InferencePreconditions ==
    (args.procedure = "inference"
        /\ ~(fs.ckpt.exists /\ args.image_path = "present")) =>
      /\ pc \in {"import", "main", "crash"}
      /\ inf = NoInf
      /\ pc = "crash" => error # ""
      /\ stdout.kind # "it is a"

C3_Witness ==
    /\ args.procedure = "inference"
    /\ fs.ckpt.exists
    /\ args.image_path = "missing"
    /\ pc = "crash"
    /\ error = "AssertionError: can not find image"

\* ---------------------------------------------------------------- C4
\* C4: a valid_step changes the test-loss and test-accuracy accumulators
\* and nothing else: the model (weights and batch-norm statistics), the
\* optimizer and the training accumulators are left unchanged.
C4_ValidStepFrame ==
    [][(pc \in ValidLoops /\ idx' = idx + 1) =>
          /\ model' = model
          /\ optimizer' = optimizer
          /\ metrics'.train_loss = metrics.train_loss
          /\ metrics'.train_accuracy = metrics.train_accuracy
          /\ metrics'.test_loss.count = metrics.test_loss.count + 1
          /\ metrics'.test_accuracy.count > metrics.test_accuracy.count
          /\ fs' = fs]_vars

C4_Witness ==
    /\ pc = "valid_batches"
    /\ idx = 1
    /\ metrics.test_loss.count = 1
    /\ model.bn.updates = TrainBatches
    /\ model.weights.updates = TrainBatches

\* ---------------------------------------------------------------- C5
\* the positions of train() that read the metrics
AtEpochLog == pc = "valid_batches" /\ ~HasNextBatch(idx, data.valid)
AtTestReport ==
    /\ pc \in {"swa_valid", "mc_valid", "mc_dropout"}
    /\ ~HasNextBatch(idx, data.valid)

\* C5: wherever train() reads a metric, the metric holds the batches of
\* the one phase that precedes the read and no earlier ones; after a reset
\* and a single perfectly predicted batch (one whose loss is that of the
\* full probability on the label) the accuracy read is 100%.
C5_MetricsOfOnePhase ==
    InTrain =>
      /\ AtEpochLog =>
            /\ metrics.train_loss.count = TrainBatches
            /\ metrics.train_accuracy.count = data.train
            /\ metrics.train_loss.total <= PMax * TrainBatches
      /\ (AtEpochLog \/ AtTestReport) =>
            /\ metrics.test_loss.count = ValidBatches
            /\ metrics.test_accuracy.count = data.valid
            /\ metrics.test_loss.total <= PMax * ValidBatches
            /\ (ValidBatches = 1
                   /\ metrics.test_loss.total = Criterion(PMax)) =>
                  Percent(metrics.test_accuracy) = 100

C5_Witness ==
    /\ InTrain
    /\ AtTestReport
    /\ pc = "mc_dropout"
    /\ args.use_swa
    /\ epoch = 2
    /\ ValidBatches = 1
    /\ metrics.test_loss.total = Criterion(PMax)
    /\ Percent(metrics.test_accuracy) = 100

FindLrSweep ==
    /\ pc \in {"find_lr_loop", "find_lr_plot", "exit"} =>
          /\ lr_finder.lr = idx
          /\ optimizer.iterations = idx
          /\ model.weights.updates = idx
          /\ Len(lr_finder.history) = idx
          /\ idx <= lr_finder.num
          /\ idx <= TrainBatches
          /\ idx > 0 => optimizer.lr = SweepRate(lr_finder.lr)
          /\ lr_finder.lr >= lr_finder.num => lr_finder.done
    /\ pc = "find_lr_loop" => ~lr_finder.done /\ fs.plots = 0
    /\ pc = "find_lr_plot" =>
          /\ fs.plots = 0
          /\ lr_finder.done \/ idx = TrainBatches
    /\ pc = "exit" => fs.plots = 1

\* C8: in find_lr() every training step feeds its loss to the finder and
\* the rate the finder returns is assigned to the optimizer; the finder
\* signals done once the max rate is reached; the loop stops at the first
\* step after which the finder is done, no training step follows it; the
\* loop terminates and the plot is written exactly once, after the loop.
C8_FindLrTerminates ==
    /\ [](args.procedure = "find_lr" => FindLrSweep)
    /\ (pc = "find_lr_loop") ~> (pc = "exit" /\ fs.plots = 1)

\* an increasing loss sequence (0, then 1) that reaches the max rate
C8_Witness ==
    /\ args.procedure = "find_lr"
    /\ pc = "exit"
    /\ fs.plots = 1
    /\ lr_finder.done
    /\ lr_finder.num = 2
    /\ lr_finder.lr = 2
    /\ lr_finder.history[1][2] = 0
    /\ loss = 1

\* ---------------------------------------------------------------- C9
\* the forward passes in training mode made before the dropout phase
BnUpdatesBeforeMc ==
    num_epochs * TrainBatches + (IF args.use_swa THEN TrainBatches ELSE 0)

\* C9: with mc_dropout, train() evaluates every validation batch without
\* dropout and then every validation batch with dropout; a
\* valid_step_with_dropout makes num_samples forward passes in training
\* mode, averages their outputs and updates the test metrics once, with
\* the average; with num_samples = 1 the update is that of the one pass.
C9_McDropout ==
    /\ [](pc = "mc_dropout" =>
            /\ stdout.kind = "test without mc dropout"
            /\ metrics.test_loss.count = idx
            /\ model.bn.updates = BnUpdatesBeforeMc + idx * num_samples)
    /\ [][(pc = "mc_dropout" /\ idx' = idx + 1) =>
            LET mean == PMax - (metrics'.test_loss.total
                                  - metrics.test_loss.total)
                len  == BatchLen(data.valid, idx')
            IN  /\ Len(outs') = num_samples
                /\ mean * num_samples <= Sum(outs')
                /\ Sum(outs') < (mean + 1) * num_samples
                /\ metrics'.test_loss.count = metrics.test_loss.count + 1
                /\ metrics'.test_accuracy =
                      AccuracyUpdate(metrics.test_accuracy, mean, len)
                /\ num_samples = 1 =>
                      /\ metrics'.test_loss =
                            MeanUpdate(metrics.test_loss, Criterion(outs'[1]))
                      /\ metrics'.test_accuracy =
                            AccuracyUpdate(metrics.test_accuracy, outs'[1],
                                           len)]_vars

C9_Witness ==
    /\ pc = "mc_dropout"
    /\ idx = 1
    /\ num_samples = 2
    /\ outs = <<0, PMax>>
    /\ metrics.test_loss = [total |-> PMax - PMax \div 2, count |-> 1]

\* --------------------------------------------------------------- C10
\* C10: the Monte-Carlo-dropout phase is evaluation only: no step of it
\* changes the model (weights, batch-norm statistics), so what train()
\* saves does not depend on mc_dropout.
C10_McPhaseKeepsModel ==
    [][(InTrain /\ pc \in {"mc_check", "mc_valid", "mc_dropout", "save"}) =>
          model' = model]_vars

====
